---------------------------- MODULE Spec2Model ----------------------------
(***************************************************************************)
(* A model of scrapexam.py, the MSRIT results scraper: the record merger   *)
(* (ensure_student, merge_semesters), the submission state machine         *)
(* (submit_and_collect_usn) and the enumeration loop with its shutdown     *)
(* path (main).                                                            *)
(*                                                                         *)
(* Python values are represented as follows.  None in a numeric position   *)
(* (Semester, SGPA, CGPA) is the integer None; every real value of those   *)
(* fields is >= 0.  None in the name position is the string NoneName.      *)
(* Floats (SGPA, CGPA) are integers.  A dict is a record, a list a         *)
(* sequence, the students_map dict a function from USN strings to          *)
(* student records.                                                        *)
(***************************************************************************)
EXTENDS Integers, Sequences, FiniteSets, TLC

VARIABLES
    students,        \* students_map: USN -> student object
    m_in,            \* merger harness: the (name, cgpa, semesters) last merged
    m_rep,           \* merger harness: how many times in a row m_in was merged
    pc,              \* main: the place the run is at
    pi,              \* main: index into plan of the (year, branch) in progress
    track,           \* main: "normal" or "diploma" ("none" before the plan loop)
    roll,            \* main: roll
    consec_oops,     \* main: consec_oops (normal track)
    consec_oops_dip, \* main: consec_oops_dip (diploma track)
    at_entry,        \* session: the page shows the USN input (By.ID "usn")
    attempt,         \* submit_and_collect_usn: the retry loop's attempt
    retries,         \* history: re-submits done for the identifier in flight
    prompts,         \* history: retry-exhaustion prompts for the identifier in flight
    res,             \* the tuple submit_and_collect_usn returned, and how it ended
    hist,            \* history: outcomes of the group in progress, "F" found,
                     \*   "N" not found, "X" abandoned by an exception, "R"
                     \*   abandoned because the USN input could not be reached
    log,             \* history: the identifiers processed, in order
    errs,            \* history: exceptions caught by the group loops so far
    stopped,         \* history: the groups that ended, each with its last roll
    entered_try,     \* main: the try block (line 498) was entered
    exit_kind,       \* how the try block was left: "normal", "error", "interrupt"
    shutdown,        \* history: what the finally block did, in order
    s_pc,            \* extractor: the place scrape_current_usn_view_structured is at
    s_page,          \* extractor: the page the browser shows
    s_site,          \* extractor: whether the site's cards page shows the USN input
    s_cards,         \* extractor: what each semester card of the page leads to
    s_idx,           \* extractor: idx of the cards loop (from 1)
    s_sems,          \* extractor: semesters
    s_nav,           \* history: the cards whose view was navigated into
    s_ret,           \* extractor: the return path taken and found_any
    w_page,          \* wait_for_either: the signals the page shows
    w_seen,          \* history: what each poll of wait_for_either saw
    w_ret,           \* wait_for_either: the indicator returned ("none" before)
    t_rows           \* extract_courses_from_visible_table: the rows last read

runvars == <<pc, pi, track, roll, consec_oops, consec_oops_dip, at_entry, attempt,
             retries, prompts, res, hist, log, errs, stopped, entered_try, exit_kind,
             shutdown>>
svars == <<s_pc, s_page, s_site, s_cards, s_idx, s_sems, s_nav, s_ret>>
wvars == <<w_page, w_seen, w_ret>>
tvars == <<t_rows>>
mvars == <<m_in, m_rep, svars, wvars, tvars>>
vars == <<students, m_in, m_rep, pc, pi, track, roll, consec_oops, consec_oops_dip,
          at_entry, attempt, retries, prompts, res, hist, log, errs, stopped,
          entered_try, exit_kind, shutdown, s_pc, s_page, s_site, s_cards, s_idx,
          s_sems, s_nav, s_ret, w_page, w_seen, w_ret, t_rows>>

(***************************************************************************)
(* Python values                                                           *)
(***************************************************************************)
None == -1
NoneName == "<None>"
NameNotFound == "Name Not Found"

\* Python truthiness of a name argument: None and "" are falsy.
Truthy(name) == name # NoneName /\ name # ""

(***************************************************************************)
(* ensure_student                                                          *)
(***************************************************************************)
NewStudent(usn, name, cgpa) ==
    [USN |-> usn,
     Name |-> IF Truthy(name) THEN name ELSE "",
     CGPA |-> cgpa,
     Semesters |-> <<>>]

\* The name stored after ensure_student on an existing record.
EnsureName(stored, name) ==
    IF Truthy(name) /\ (stored = "" \/ stored = NameNotFound) THEN name ELSE stored

\* Faulty variant for C9: 'if cgpa:' in place of 'if cgpa is not None:'.
EnsureCgpaTruthy(stored, cgpa) ==
    IF cgpa # None /\ cgpa # 0 THEN cgpa ELSE stored

\* The CGPA stored after ensure_student on an existing record.
EnsureCgpa(stored, cgpa) ==
    IF cgpa # None THEN cgpa ELSE stored

\* record_map after ensure_student(record_map, usn, name, cgpa).
ensure_student(record_map, usn, name, cgpa) ==
    IF usn \notin DOMAIN record_map
    THEN [u \in DOMAIN record_map \cup {usn} |->
             IF u = usn THEN NewStudent(usn, name, cgpa) ELSE record_map[u]]
    ELSE [record_map EXCEPT ![usn].Name = EnsureName(@, name),
                            ![usn].CGPA = EnsureCgpa(@, cgpa)]

(***************************************************************************)
(* merge_semesters                                                         *)
(***************************************************************************)
\* The dedup key of a course: (Course_Code, Grade, Course_Name).
CourseKey(c) == <<c.Course_Code, c.Grade, c.Course_Name>>

\* The keys of idx_by_sem, the dict comprehension over the semesters the
\* record holds when merge_semesters is entered.
IdxKeys(sems) == {sems[i].Semester : i \in 1..Len(sems)}

\* idx_by_sem[s_no]: a later semester with the same key overwrites an
\* earlier one in the comprehension, so the index is the last one.
IdxBySem(sems, s_no) ==
    CHOOSE i \in 1..Len(sems) :
        /\ sems[i].Semester = s_no
        /\ \A j \in (i+1)..Len(sems) : sems[j].Semester # s_no

\* Faulty variant for C8: an unknown semester number is never looked up.
InIndexKnownOnly(idx_keys, s_no) == s_no # None /\ s_no \in idx_keys

\* Whether the incoming semester merges into an indexed one (s_no in idx_by_sem).
InIndex(idx_keys, s_no) == s_no \in idx_keys

\* The set 'existing' is built once per incoming semester, before its
\* courses are looped over, and is not updated by the appends.
RECURSIVE AppendNewCourses(_, _, _)
AppendNewCourses(courses, existing, incoming) ==
    IF incoming = <<>> THEN courses
    ELSE AppendNewCourses(
             IF CourseKey(Head(incoming)) \notin existing
             THEN Append(courses, Head(incoming)) ELSE courses,
             existing, Tail(incoming))

\* Faulty variant for C12: the incoming semester takes the place of dest.
MergeIntoReplace(dest, sem) == sem

\* Faulty variant for C19: a known incoming SGPA always wins.
MergeSgpaOverwrite(dest_sgpa, sem_sgpa) ==
    IF sem_sgpa # None THEN sem_sgpa ELSE dest_sgpa

\* Lines 469-470: dest["SGPA"] after the backfill.
MergeSgpa(dest_sgpa, sem_sgpa) ==
    IF dest_sgpa = None /\ sem_sgpa # None THEN sem_sgpa ELSE dest_sgpa

\* dest after one incoming semester was merged into it.
MergeInto(dest, sem) ==
    [Semester |-> dest.Semester,
     SGPA |-> MergeSgpa(dest.SGPA, sem.SGPA),
     Courses |-> AppendNewCourses(dest.Courses,
                                  {CourseKey(dest.Courses[i]) : i \in 1..Len(dest.Courses)},
                                  sem.Courses)]

\* The loop over new_semesters; orig is the semester list at entry, from
\* which idx_by_sem was built (it is never rebuilt inside the loop).
RECURSIVE MergeLoop(_, _, _)
MergeLoop(sems, orig, new_semesters) ==
    IF new_semesters = <<>> THEN sems
    ELSE LET sem == Head(new_semesters)
             s_no == sem.Semester
         IN  MergeLoop(
                 IF InIndex(IdxKeys(orig), s_no)
                 THEN [sems EXCEPT ![IdxBySem(orig, s_no)] = MergeInto(@, sem)]
                 ELSE Append(sems, sem),
                 orig, Tail(new_semesters))

\* student_obj after merge_semesters(student_obj, new_semesters).
merge_semesters(student_obj, new_semesters) ==
    [student_obj EXCEPT !.Semesters = MergeLoop(@, student_obj.Semesters, new_semesters)]

\* main's two lines on a found identifier:
\*   stu = ensure_student(students_map, usn, name, cgpa); merge_semesters(stu, semesters)
MergeFound(record_map, usn, name, cgpa, semesters) ==
    LET m == ensure_student(record_map, usn, name, cgpa)
    IN  [m EXCEPT ![usn] = merge_semesters(@, semesters)]

(***************************************************************************)
(* Bounded inputs: what one result page can show                           *)
(***************************************************************************)
MaxSems == 2     \* semesters of a record the merger harness starts from
MaxFrags == 2    \* semester fragments in one extraction

\* Rows of the result table as extract_courses_from_visible_table returns
\* them; Course1 and Course1Later are the same row read at two times.
Course1 == [Course_Code |-> "CS301", Course_Name |-> "Algo", Grade |-> "A",
            Timestamp |-> "10:00:00"]
Course1Later == [Course_Code |-> "CS301", Course_Name |-> "Algo", Grade |-> "A",
                 Timestamp |-> "10:00:07"]
Course2 == [Course_Code |-> "CS302", Course_Name |-> "OS", Grade |-> "B",
            Timestamp |-> "10:00:07"]
CourseLists == {<<Course1>>, <<Course1Later, Course2>>}
SemNos == {None, 3}
Sgpas == {None, 8, 9}

\* A semester dict as scrape_current_usn_view_structured appends it: its
\* course list is never empty (the 'if courses:' guard).  The caption of the
\* one-row table reads SGPA 8, that of the two-row table SGPA 9, or the
\* caption does not parse.
Fragments ==
    {f \in [Semester : SemNos, SGPA : Sgpas, Courses : CourseLists] :
        /\ f.SGPA = 8 => f.Courses = <<Course1>>
        /\ f.SGPA = 9 => f.Courses = <<Course1Later, Course2>>}

SeqsUpTo(S, n) == UNION {[1..k -> S] : k \in 0..n}
FragLists == SeqsUpTo(Fragments, MaxFrags)

TheUsn == "1MS21AD001"
MergeNames == {"Asha"}
MergeCgpas == {None, 8}
MergeInputs == [name : MergeNames, cgpa : MergeCgpas, semesters : FragLists]
NoInput == [name |-> NoneName, cgpa |-> None, semesters |-> <<>>]

(***************************************************************************)
(* The run's variables at rest, for the harnesses that do not run main     *)
(***************************************************************************)
NoRes == [found |-> FALSE, name |-> NoneName, cgpa |-> None, semesters |-> <<>>,
          ind |-> "none"]

\* The extractor and wait_for_either when they are not under study.
NoRet == [path |-> "none", found |-> FALSE]
ScrapeAtRest ==
    /\ s_pc = "idle" /\ s_page = "entry" /\ s_site = FALSE /\ s_cards = <<>>
    /\ s_idx = 0 /\ s_sems = <<>> /\ s_nav = {} /\ s_ret = NoRet
WaitAtRest == w_page = {} /\ w_seen = <<>> /\ w_ret = "none"
TableAtRest == t_rows = <<>>

RunAtRest ==
    /\ pc = "idle" /\ pi = 0 /\ track = "none" /\ roll = 0
    /\ consec_oops = 0 /\ consec_oops_dip = 0 /\ at_entry = FALSE
    /\ attempt = 0 /\ retries = 0 /\ prompts = 0 /\ res = NoRes
    /\ hist = <<>> /\ log = <<>> /\ errs = 0 /\ stopped = {}
    /\ entered_try = FALSE /\ exit_kind = "none" /\ shutdown = <<>>

(***************************************************************************)
(* The merger harness: a record the run can hold, then merges into it      *)
(***************************************************************************)
\* Every non-empty semester list of fragments is one a record can hold:
\* merging it into a new record stores it as it is.  A record is created
\* only with a found tuple, so it never holds an empty list.
InitMerge ==
    /\ students \in {<<>>} \cup
          {[u \in {TheUsn} |-> [USN |-> TheUsn, Name |-> n, CGPA |-> c, Semesters |-> ss]] :
              n \in {NameNotFound}, c \in {None},
              ss \in SeqsUpTo(Fragments, MaxSems) \ {<<>>}}
    /\ m_in = NoInput /\ m_rep = 0 /\ TableAtRest
    /\ RunAtRest /\ ScrapeAtRest /\ WaitAtRest

\* One found identifier: ensure_student, then merge_semesters (main 564-565).
MergeCall(in) ==
    /\ m_rep = 0
    /\ students' = MergeFound(students, TheUsn, in.name, in.cgpa, in.semesters)
    /\ m_in' = in /\ m_rep' = 1
    /\ UNCHANGED <<runvars, svars, wvars, tvars>>

\* The same extraction merged once more.
MergeAgain ==
    /\ m_rep = 1
    /\ students' = MergeFound(students, TheUsn, m_in.name, m_in.cgpa, m_in.semesters)
    /\ m_rep' = 2
    /\ UNCHANGED <<m_in, runvars, svars, wvars, tvars>>

NextMerge == (\E in \in MergeInputs : MergeCall(in)) \/ MergeAgain

SpecMerge == InitMerge /\ [][NextMerge]_vars

(***************************************************************************)
(* The ensure_student harness: calls with any name and cgpa                *)
(***************************************************************************)
MaxCalls == 3    \* ensure_student calls on one record
EnsureNames == {NoneName, "", NameNotFound, "Asha", "Ravi"}
EnsureCgpas == {None, 0, 7, 9}

InitEnsure ==
    /\ students = <<>>
    /\ m_in = NoInput /\ m_rep = 0 /\ TableAtRest
    /\ RunAtRest /\ ScrapeAtRest /\ WaitAtRest

EnsureCall(name, cgpa) ==
    /\ m_rep < MaxCalls
    /\ students' = ensure_student(students, TheUsn, name, cgpa)
    /\ m_in' = [name |-> name, cgpa |-> cgpa, semesters |-> <<>>]
    /\ m_rep' = m_rep + 1
    /\ UNCHANGED <<runvars, svars, wvars, tvars>>

NextEnsure == \E name \in EnsureNames, cgpa \in EnsureCgpas : EnsureCall(name, cgpa)

SpecEnsure == InitEnsure /\ [][NextEnsure]_vars

(***************************************************************************)
(* Claims about the record merger                                          *)
(***************************************************************************)
SemsOf(m) == IF TheUsn \in DOMAIN m THEN m[TheUsn].Semesters ELSE <<>>
KeysOf(courses) == {CourseKey(courses[i]) : i \in 1..Len(courses)}
NoDupKeys(courses) ==
    \A i, j \in 1..Len(courses) : CourseKey(courses[i]) = CourseKey(courses[j]) => i = j
WithNo(sems, n) == {i \in 1..Len(sems) : sems[i].Semester = n}
MergeStep == m_rep' = m_rep + 1

C6_UnionOfTriples ==
    [][\A a, b \in Fragments :
          /\ MergeStep
          /\ a.Semester # None /\ a.Semester = b.Semester
          /\ \/ (SemsOf(students) = <<>> /\ m_in'.semesters = <<a, b>>)
             \/ (SemsOf(students) = <<a>> /\ m_in'.semesters = <<b>>)
          => \A i \in WithNo(SemsOf(students'), a.Semester) :
                /\ NoDupKeys(SemsOf(students')[i].Courses)
                /\ Len(SemsOf(students')[i].Courses)
                     = Cardinality(KeysOf(a.Courses) \cup KeysOf(b.Courses))]_vars

\* C7 (as claimed): no student record holds two semesters with the same
\* known semester number.
C7_UniqueSemesterNumbers ==
    \A u \in DOMAIN students :
        \A i, j \in 1..Len(students[u].Semesters) :
            (/\ students[u].Semesters[i].Semester # None
             /\ students[u].Semesters[i].Semester = students[u].Semesters[j].Semester)
            => i = j

\* A merge of exactly one fragment, whose semester number is unknown.
OneUnknownFragment(in) == Len(in.semesters) = 1 /\ in.semesters[1].Semester = None
NumUnknown(m) == Cardinality(WithNo(SemsOf(m), None))

\* C8 (as claimed): a fragment with an unknown number is never merged into
\* an existing semester: each merge of one adds an unknown-number semester.
C8_UnknownAlwaysAppended ==
    [][(MergeStep /\ OneUnknownFragment(m_in'))
          => NumUnknown(students') = NumUnknown(students) + 1]_vars

\* C8 (amended): a fragment with an unknown number is appended only when the
\* record holds no unknown-number semester at the call; otherwise it is
\* merged into the last unknown-number semester the record holds, whose
\* courses then include the fragment's, and no semester is added.  Merged
\* twice in a row, the second merge changes nothing.
C8_UnknownMergedIntoExisting ==
    [][(MergeStep /\ OneUnknownFragment(m_in')) =>
          LET old == SemsOf(students)
              new == SemsOf(students')
              u   == m_in'.semesters[1]
          IN  /\ NumUnknown(students) = 0 => new = Append(old, u)
              /\ NumUnknown(students) > 0 =>
                    /\ Len(new) = Len(old)
                    /\ \A i \in 1..Len(old) :
                          IF i = IdxBySem(old, None)
                          THEN KeysOf(new[i].Courses)
                                 = KeysOf(old[i].Courses) \cup KeysOf(u.Courses)
                          ELSE new[i] = old[i]
              /\ m_rep' = 2 => new = old]_vars

\* C8 witness: one unknown-number fragment merged twice into a record that
\* had no semester left the record with a single unknown-number semester.
C8_Witness ==
    /\ m_rep = 2 /\ OneUnknownFragment(m_in)
    /\ SemsOf(students) = m_in.semesters

\* C9: an ensure_student call on an existing record never clears a stored
\* Name or CGPA; a non-null cgpa replaces the stored CGPA and a null one
\* keeps it; a stored name other than "" and "Name Not Found" is kept, and
\* the name changes only from "" or "Name Not Found" to a non-empty name.
C9_MonotonicScalars ==
    [][(MergeStep /\ TheUsn \in DOMAIN students) =>
          LET old == students[TheUsn]
              new == students'[TheUsn]
              name == m_in'.name
              cgpa == m_in'.cgpa
          IN  /\ old.Name # "" => new.Name # ""
              /\ old.CGPA # None => new.CGPA # None
              /\ cgpa # None => new.CGPA = cgpa
              /\ cgpa = None => new.CGPA = old.CGPA
              /\ old.Name \notin {"", NameNotFound} => new.Name = old.Name
              /\ new.Name # old.Name =>
                    /\ old.Name \in {"", NameNotFound}
                    /\ new.Name = name /\ name \notin {NoneName, ""}]_vars

\* C9 witness: the record was created as ("Asha", 7), and a later call with
\* another name and no cgpa left both in place.
C9_Witness ==
    /\ m_rep = 2 /\ m_in.name = "Ravi" /\ m_in.cgpa = None
    /\ TheUsn \in DOMAIN students
    /\ students[TheUsn].Name = "Asha" /\ students[TheUsn].CGPA = 7

\* courses is an initial part of later.
IsPrefix(courses, later) ==
    /\ Len(courses) <= Len(later)
    /\ \A k \in 1..Len(courses) : later[k] = courses[k]

\* C12: no step, a merge (ensure_student + merge_semesters) or any other,
\* deletes anything from the aggregate: every
\* record stays, every semester stays at its place with its number, and the
\* courses it held stay, in order, at the head of its course list.
C12_AppendOnly ==
    [][\A u \in DOMAIN students :
              /\ u \in DOMAIN students'
              /\ LET old == students[u].Semesters
                     new == students'[u].Semesters
                 IN  /\ Len(old) <= Len(new)
                     /\ \A i \in 1..Len(old) :
                           /\ new[i].Semester = old[i].Semester
                           /\ IsPrefix(old[i].Courses, new[i].Courses)]_vars

\* C12 witness: a record holding semester 3 with one course took a merge of
\* two fragments; semester 3 kept its course and gained one, and the
\* unknown-number fragment was appended after it.
C12_Witness ==
    /\ m_rep = 1 /\ Len(m_in.semesters) = 2
    /\ SemsOf(students) =
          <<[Semester |-> 3, SGPA |-> None, Courses |-> <<Course1, Course2>>],
            [Semester |-> None, SGPA |-> None, Courses |-> <<Course1>>]>>

\* The incoming fragments of the merge that carry semester number n.
Incoming(in, n) == {k \in 1..Len(in.semesters) : in.semesters[k].Semester = n}

\* C19: merge_semesters never overwrites a known SGPA: the SGPA of a
\* semester the record held changes only from None to the known SGPA of an
\* incoming fragment with the same number; its number and the courses it
\* held are unchanged, and a semester no incoming fragment matches is
\* unchanged altogether.
C19_SgpaBackfillOnly ==
    [][MergeStep =>
          LET old == SemsOf(students)
              new == SemsOf(students')
          IN  \A i \in 1..Len(old) :
                  /\ old[i].SGPA # None => new[i].SGPA = old[i].SGPA
                  /\ new[i].SGPA # old[i].SGPA =>
                        \E k \in Incoming(m_in', old[i].Semester) :
                            /\ m_in'.semesters[k].SGPA = new[i].SGPA
                            /\ new[i].SGPA # None
                  /\ new[i].Semester = old[i].Semester
                  /\ SubSeq(new[i].Courses, 1, Len(old[i].Courses)) = old[i].Courses
                  /\ Incoming(m_in', old[i].Semester) = {} => new[i] = old[i]]_vars

\* C19 witness: a semester stored with SGPA 8 took a fragment of the same
\* number with SGPA 9 and a further course: it still reads 8 and holds both
\* courses.
C19_Witness ==
    /\ m_rep = 1 /\ Len(m_in.semesters) = 1
    /\ m_in.semesters[1].SGPA = 9
    /\ SemsOf(students) =
          <<[Semester |-> m_in.semesters[1].Semester, SGPA |-> 8,
             Courses |-> <<Course1, Course2>>]>>

(***************************************************************************)
(* The extractor: scrape_current_usn_view_structured, step by step         *)
(***************************************************************************)
MaxCards == 3    \* semester cards on one result page

\* Pages: "entry" (the USN input), "cards" (the semester cards of an
\* identifier), "table" (results shown directly), "view" (the results a
\* card's View button leads to), "card_oops" (the not-found page a View
\* button led to), "oops" (not found), "blank" (none of these signals).
ScrapePages == {"cards", "table", "oops", "blank"}

\* What a card leads to: no clickable element in it (line 292), a click that
\* raises (line 297), a not-found page (line 301), a table with rows, a
\* table without rows, or a table with rows whose way back to the cards
\* view fails (line 324).
CardScripts == {"nobtn", "clickfail", "oops", "courses", "nocourses", "backfail"}

\* The semester dict appended for card i of the page (lines 312-317).
CardFragment(i) == [Semester |-> i, SGPA |-> None, Courses |-> <<Course1>>]

\* go_back_to_usn_entry_keep_session from page: "works" (navigation works:
\* driver.back() until the USN input shows, at most twice, else the link or
\* the reload), "fails" (nothing brings the USN input: False is returned),
\* "raises" (driver.back() raises something other than TimeoutException).
GoBackEnvs == {"works", "fails", "raises"}
GoBack(page, site, env) ==
    CASE env = "works" ->
             [ok |-> TRUE, raised |-> FALSE,
              page |-> IF page \in {"view", "card_oops"} /\ site THEN "cards" ELSE "entry"]
      [] env = "fails" -> [ok |-> FALSE, raised |-> FALSE, page |-> "blank"]
      [] env = "raises" -> [ok |-> FALSE, raised |-> TRUE, page |-> page]

\* The page shows the USN input (By.ID "usn").
AtEntryField == s_page = "entry" \/ (s_page = "cards" /\ s_site)

\* The extractor is entered; the page it reads was classified as cards or
\* table by an earlier poll and is read again here.
InitScrape ==
    /\ students = <<>> /\ m_in = NoInput /\ m_rep = 0 /\ TableAtRest
    /\ RunAtRest /\ WaitAtRest
    /\ s_pc = "enter"
    /\ s_page \in ScrapePages
    /\ s_site \in BOOLEAN
    /\ s_cards \in SeqsUpTo(CardScripts, MaxCards)
    /\ (s_page = "cards") = (s_cards # <<>>)
    /\ s_idx = 0 /\ s_sems = <<>> /\ s_nav = {} /\ s_ret = NoRet

\* Lines 263-273 and 333-352: the entry of the extractor, and the flow
\* without cards.  tbl: the visible table has rows.
ScrapeEnter(env, tbl) ==
    /\ s_pc = "enter"
    /\ CASE s_page = "oops" ->
               /\ s_pc' = "done" /\ s_ret' = [path |-> "oops", found |-> FALSE]
               /\ UNCHANGED <<s_page, s_sems, s_idx>>
         [] s_page = "cards" ->
               /\ s_pc' = "cards" /\ s_idx' = 1
               /\ UNCHANGED <<s_page, s_sems, s_ret>>
         [] s_page = "table" ->
               LET sems == IF tbl THEN <<CardFragment(0)>> ELSE <<>>
                   g == GoBack(s_page, s_site, env)
               IN  /\ s_sems' = sems /\ s_page' = g.page
                   /\ IF g.raised
                      THEN s_pc' = "raised" /\ UNCHANGED s_ret
                      ELSE /\ s_pc' = "done"
                           /\ s_ret' = [path |-> "table", found |-> Len(sems) > 0]
                   /\ UNCHANGED s_idx
         [] OTHER ->
               /\ s_pc' = "done" /\ s_ret' = [path |-> "none", found |-> FALSE]
               /\ UNCHANGED <<s_page, s_sems, s_idx>>
    /\ UNCHANGED <<students, m_in, m_rep, runvars, wvars, tvars, s_site, s_cards, s_nav>>

\* Lines 272-328: one pass of 'for idx in range(len(cards))'.
ScrapeCard(env) ==
    /\ s_pc = "cards"
    /\ LET shown == IF s_page = "cards" THEN Len(s_cards) ELSE 0   \* line 273
           g == GoBack(IF s_cards[s_idx] = "oops" THEN "card_oops" ELSE "view",
                       s_site, env)
       IN  IF s_idx > Len(s_cards) \/ s_idx > shown
           THEN /\ s_pc' = "after"                       \* loop over, or line 275
                /\ UNCHANGED <<s_page, s_idx, s_sems, s_nav>>
           ELSE CASE s_cards[s_idx] \in {"nobtn", "clickfail"} ->
                       /\ s_idx' = s_idx + 1
                       /\ UNCHANGED <<s_pc, s_page, s_sems, s_nav>>
                  [] s_cards[s_idx] = "oops" ->
                       /\ s_nav' = s_nav \cup {s_idx}
                       /\ s_page' = IF g.raised THEN "card_oops" ELSE g.page
                       /\ s_pc' = IF g.raised THEN "raised" ELSE "cards"
                       /\ s_idx' = s_idx + 1
                       /\ UNCHANGED s_sems
                  [] s_cards[s_idx] \in {"courses", "nocourses"} ->
                       /\ s_nav' = s_nav \cup {s_idx}
                       /\ s_sems' = IF s_cards[s_idx] = "courses"
                                    THEN Append(s_sems, CardFragment(s_idx)) ELSE s_sems
                       /\ s_idx' = s_idx + 1
                       /\ UNCHANGED <<s_pc, s_page>>
                  [] s_cards[s_idx] = "backfail" ->
                       /\ s_nav' = s_nav \cup {s_idx}
                       /\ s_sems' = Append(s_sems, CardFragment(s_idx))
                       /\ s_page' = IF g.raised THEN "view" ELSE g.page
                       /\ s_pc' = IF g.raised THEN "raised" ELSE "after"
                       /\ UNCHANGED s_idx
    /\ UNCHANGED <<students, m_in, m_rep, runvars, wvars, tvars, s_site, s_cards, s_ret>>

\* Lines 330-331: after the cards loop.
ScrapeAfterCards(env) ==
    /\ s_pc = "after"
    /\ LET g == GoBack(s_page, s_site, env)
       IN  /\ s_page' = g.page
           /\ IF g.raised
              THEN s_pc' = "raised" /\ UNCHANGED s_ret
              ELSE /\ s_pc' = "done"
                   /\ s_ret' = [path |-> "cards", found |-> Len(s_sems) > 0]
    /\ UNCHANGED <<students, m_in, m_rep, runvars, wvars, tvars, s_site, s_cards, s_idx,
                   s_sems, s_nav>>

NextScrape ==
    \/ \E env \in GoBackEnvs, tbl \in BOOLEAN : ScrapeEnter(env, tbl)
    \/ \E env \in GoBackEnvs : ScrapeCard(env)
    \/ \E env \in GoBackEnvs : ScrapeAfterCards(env)

SpecScrape == InitScrape /\ [][NextScrape]_vars

\* C13 (as claimed): whenever the extractor has returned after reading a
\* page that was not the not-found page, the browser shows the USN input.
C13_ReturnsAtEntryField ==
    (s_pc = "done" /\ s_ret.path # "oops") => AtEntryField

\* C14 (as claimed): in the cards flow, when the view of card i is the
\* not-found page and every other card shows a table with rows, card i
\* gives no fragment and every later card is navigated into and gives its
\* fragment.
C14_LaterUnitsExtracted ==
    (s_pc = "done" /\ s_ret.path = "cards") =>
        \A i \in 1..Len(s_cards) :
            (/\ s_cards[i] = "oops"
             /\ \A j \in 1..Len(s_cards) : j # i => s_cards[j] = "courses")
            => /\ \A k \in 1..Len(s_sems) : s_sems[k] # CardFragment(i)
               /\ \A j \in (i + 1)..Len(s_cards) :
                     /\ j \in s_nav
                     /\ \E k \in 1..Len(s_sems) : s_sems[k] = CardFragment(j)

(***************************************************************************)
(* wait_for_either                                                         *)
(***************************************************************************)
MaxPolls == 6    \* passes of the polling loop before time is up

\* What a poll can find in the page: the not-found text (page_has_oops),
\* .cn-result-card elements, the student header or the result table.
Signals == {"oops", "cards", "table"}

\* Faulty variant for C15: the cards are looked for before the not-found text.
WaitClassifyCardsFirst(sig) ==
    IF "cards" \in sig THEN "cards"
    ELSE IF "oops" \in sig THEN "oops"
    ELSE IF "table" \in sig THEN "table"
    ELSE "none"

\* Lines 135-144: the three tests of one pass, in their order; "none" when
\* the pass falls through to the sleep.
WaitClassify(sig) ==
    IF "oops" \in sig THEN "oops"
    ELSE IF "cards" \in sig THEN "cards"
    ELSE IF "table" \in sig THEN "table"
    ELSE "none"

InitWait ==
    /\ students = <<>> /\ m_in = NoInput /\ m_rep = 0 /\ TableAtRest
    /\ RunAtRest /\ ScrapeAtRest
    /\ w_page \in SUBSET Signals
    /\ w_seen = <<>> /\ w_ret = "none"

\* The page loads or changes while wait_for_either sleeps (line 145).
PageChanges(sig) ==
    /\ w_ret = "none" /\ sig # w_page
    /\ w_page' = sig
    /\ UNCHANGED <<students, m_in, m_rep, runvars, svars, tvars, w_seen, w_ret>>

\* Lines 134-145: one pass of 'while time.time() < end'.
WaitPoll ==
    /\ w_ret = "none" /\ Len(w_seen) < MaxPolls
    /\ w_seen' = Append(w_seen, w_page)
    /\ w_ret' = WaitClassify(w_page)
    /\ UNCHANGED <<students, m_in, m_rep, runvars, svars, tvars, w_page>>

\* Lines 134 and 146: time is up at the loop test.
WaitTimeUp ==
    /\ w_ret = "none"
    /\ w_ret' = "timeout"
    /\ UNCHANGED <<students, m_in, m_rep, runvars, svars, tvars, w_page, w_seen>>

NextWait ==
    \/ \E sig \in SUBSET Signals : PageChanges(sig)
    \/ WaitPoll
    \/ WaitTimeUp

SpecWait == InitWait /\ [][NextWait]_vars

\* C15: wait_for_either returns one of oops, cards, table, timeout; what it
\* returns other than timeout is a signal the last poll saw, oops whenever
\* that poll saw the not-found text, whatever else it saw; every earlier
\* poll, and every poll before a timeout, saw no signal; and no step of the
\* function changes the page or the aggregate.
C15_OopsFirstAndTimeoutLast ==
    /\ [](/\ w_ret \in {"none", "oops", "cards", "table", "timeout"}
          /\ w_ret \in {"none", "timeout"} =>
                \A k \in 1..Len(w_seen) : w_seen[k] = {}
          /\ w_ret \in Signals =>
                /\ w_seen # <<>>
                /\ w_ret \in w_seen[Len(w_seen)]
                /\ "oops" \in w_seen[Len(w_seen)] => w_ret = "oops"
                /\ \A k \in 1..(Len(w_seen) - 1) : w_seen[k] = {})
    /\ [][(w_seen' # w_seen \/ w_ret' # w_ret) =>
             w_page' = w_page /\ students' = students]_vars

\* C15 witness: a first poll saw nothing, the second saw the not-found text
\* together with result cards, and oops was returned.
C15_Witness ==
    /\ w_ret = "oops"
    /\ w_seen = <<{}, {"oops", "cards"}>>

(***************************************************************************)
(* Configuration (lines 28-42) and the identifiers of the plan             *)
(***************************************************************************)
YEARS == <<"21", "22", "23", "24">>
BRANCHES == <<"AD", "AI", "CS", "IS", "CI", "CY">>
ROLL_START == 1
DIP_START == 401
MAX_CONSEC_OOPS == 5
RETRY_ON_TIMEOUT == 2

MaxPlan == 1       \* (year, branch) entries of the plan the run goes through
MaxAttempts == 7   \* identifiers one group may attempt
MaxStudents == 1   \* student records in the aggregate
MaxErrs == 1       \* exceptions the group loops catch in one run

\* f"{n:02d}" and f"{n:03d}"
Pad2(n) == IF n < 10 THEN "0" \o ToString(n) ELSE ToString(n)
Pad3(n) == IF n < 10 THEN "00" \o ToString(n)
           ELSE IF n < 100 THEN "0" \o ToString(n) ELSE ToString(n)

\* int(year) of a two-digit year string
YearInt(year) == CHOOSE n \in 0..99 : Pad2(n) = year

\* f"1MS{year}{branch}{roll:03d}"
Usn(year, branch, r) == "1MS" \o year \o branch \o Pad3(r)

\* plan = [(y, b) for b in BRANCHES for y in YEARS], cut to MaxPlan entries
FullPlan ==
    [k \in 1..(Len(BRANCHES) * Len(YEARS)) |->
        [year |-> YEARS[((k - 1) % Len(YEARS)) + 1],
         branch |-> BRANCHES[((k - 1) \div Len(YEARS)) + 1]]]
plan == SubSeq(FullPlan, 1, MaxPlan)

\* Faulty variant for C21: the manual identifier is the second roll.
first_usn_second_roll == Usn(plan[1].year, plan[1].branch, ROLL_START + 1)

\* first_usn = f"1MS{first_year}{first_branch}{ROLL_START:03d}" (lines 502-503)
first_usn == Usn(plan[1].year, plan[1].branch, ROLL_START)

\* Faulty variant for C16: the diploma track keeps the year of the normal one.
DipYearSame(year) == year

\* dip_year = f"{int(year) + 1:02d}"
DipYear(year) == Pad2(YearInt(year) + 1)

\* The year, the floor and the identifier of the track in progress.
TrackYear == IF track = "normal" THEN plan[pi].year ELSE DipYear(plan[pi].year)
Floor == IF track = "normal" THEN ROLL_START ELSE DIP_START
CurUsn == Usn(TrackYear, plan[pi].branch, roll)
Counter == IF track = "normal" THEN consec_oops ELSE consec_oops_dip

(***************************************************************************)
(* What the session can answer                                             *)
(***************************************************************************)
\* wait_for_either's return values
Indicators == {"oops", "cards", "table", "timeout"}
Present == {"cards", "table"}

\* go_back_to_usn_entry_keep_session: True, False, or an exception that is
\* not a TimeoutException out of driver.back().
GoBacks == {"true", "false", "raise"}

\* The (name, cgpa_final, semesters) of scrape_current_usn_view_structured:
\* no fragment at all, or two result cards that show one semester number.
Fragment3 == [Semester |-> 3, SGPA |-> None, Courses |-> <<Course1>>]
Fragment3Again == [Semester |-> 3, SGPA |-> 9, Courses |-> <<Course1Later, Course2>>]
Extractions ==
    {[name |-> NameNotFound, cgpa |-> None, semesters |-> <<>>],
     [name |-> "Asha", cgpa |-> 8, semesters |-> <<Fragment3, Fragment3Again>>]}

\* One call of scrape_current_usn_view_structured: it raises, or returns an
\* extraction and leaves the session at the USN entry page or not.
Scrapes == {[raise |-> TRUE, ext |-> CHOOSE e \in Extractions : e.semesters = <<>>,
             back |-> FALSE]}
           \cup [raise : {FALSE}, ext : Extractions, back : BOOLEAN]

\* Faulty variant for C17: a page classified as results counts as found.
FoundAnyAlways(semesters) == TRUE

\* found_any of the returned tuple: len(semesters) > 0 (lines 331, 350, 352)
FoundAny(semesters) == Len(semesters) > 0

\* The tuple submit_and_collect_usn returns after a scrape, with the
\* indicator that led to it.
ScrapeRes(sc, ind) ==
    [found |-> FoundAny(sc.ext.semesters), name |-> sc.ext.name, cgpa |-> sc.ext.cgpa,
     semesters |-> sc.ext.semesters, ind |-> ind]

\* (False, None, None, []) with the indicator that led to it.
NotFoundRes(ind) ==
    [found |-> FALSE, name |-> NoneName, cgpa |-> None, semesters |-> <<>>, ind |-> ind]

\* The bound on the aggregate: a further record only while there is room.
Room(usn, sc) ==
    \/ sc.raise
    \/ ~FoundAny(sc.ext.semesters)
    \/ usn \in DOMAIN students
    \/ Cardinality(DOMAIN students) < MaxStudents

(***************************************************************************)
(* extract_courses_from_visible_table and the direct-table flow: the rows  *)
(* of the visible table, then reads of it for one identifier                *)
(***************************************************************************)
MaxRows == 2
MaxReads == 2

\* The text of a cell as the page shows it, and str.strip() of it.
CodeTexts == {"  ", " CS301 "}
NameTexts == {"", "Algo "}
Strip(text) ==
    CASE text = "  " -> ""
      [] text = " CS301 " -> "CS301"
      [] text = "Algo " -> "Algo"
      [] OTHER -> text

\* A <tr>: the number of its <td> cells and the texts of tds[0], tds[1] and
\* tds[4] (read only when there are five cells or more).
TableRowsPool == [tds : {4, 5}, code : CodeTexts, name : NameTexts, grade : {"A"}]
Tables == SeqsUpTo(TableRowsPool, MaxRows)

\* 'if code and name:' (line 241)
RowValid(code, name) == code # "" /\ name # ""

\* The dict appended for a row (line 242); the clock is held at one reading.
CourseOfRow(r) ==
    [Course_Code |-> Strip(r.code), Course_Name |-> Strip(r.name),
     Grade |-> Strip(r.grade), Timestamp |-> "10:00:00"]

\* The loop over the rows (lines 235-242): rows of fewer than five cells and
\* rows whose stripped code or name is empty are passed over.
RECURSIVE CoursesOfRows(_)
CoursesOfRows(rows) ==
    IF rows = <<>> THEN <<>>
    ELSE LET r == Head(rows)
             rest == CoursesOfRows(Tail(rows))
         IN  IF r.tds >= 5 /\ RowValid(Strip(r.code), Strip(r.name))
             THEN <<CourseOfRow(r)>> \o rest
             ELSE rest

\* extract_courses_from_visible_table (lines 230-245).  exc = 0: no
\* exception; exc = k > 0: the wait for the tbody (k = 1) or the read of row
\* k raises, 'except Exception: pass' keeps the courses of the rows before.
extract_courses_from_visible_table(rows, exc) ==
    IF exc = 0 THEN CoursesOfRows(rows) ELSE CoursesOfRows(SubSeq(rows, 1, exc - 1))

\* The direct-table flow (lines 336-350): the semester dict is appended
\* only 'if courses:'.
DirectSemesters(sem_num, sgpa, courses) ==
    IF courses # <<>>
    THEN <<[Semester |-> sem_num, SGPA |-> sgpa, Courses |-> courses]>>
    ELSE <<>>

InitRows ==
    /\ students = <<>>
    /\ m_in = NoInput /\ m_rep = 0
    /\ t_rows \in Tables
    /\ RunAtRest /\ ScrapeAtRest /\ WaitAtRest

\* One submission of the identifier whose page shows the table: the scrape
\* (lines 336-350) and main's 'if found:' with ensure_student and
\* merge_semesters (lines 523-526, 562-565, 601-604).
ReadTable(sem_num, exc) ==
    /\ m_rep < MaxReads
    /\ LET courses == extract_courses_from_visible_table(t_rows, exc)
           semesters == DirectSemesters(sem_num, None, courses)
       IN  /\ m_in' = [name |-> "Asha", cgpa |-> None, semesters |-> semesters]
           /\ students' = IF FoundAny(semesters)
                           THEN MergeFound(students, TheUsn, "Asha", None, semesters)
                           ELSE students
    /\ m_rep' = m_rep + 1
    /\ UNCHANGED <<runvars, svars, wvars, tvars>>

NextRows == \E sem_num \in SemNos, exc \in 0..Len(t_rows) : ReadTable(sem_num, exc)

SpecRows == InitRows /\ [][NextRows]_vars

\* C22 (as claimed): in every reachable state every record of the aggregate
\* has at least one semester, every semester has at least one course, and
\* every course has a non-empty Course_Code and a non-empty Course_Name.
\* The reads of a table keep it (SpecRows); the run does not, where Ctrl-C
\* falls between ensure_student and merge_semesters.
C22_RecordsAreNeverEmpty ==
    /\ \A u \in DOMAIN students :
          /\ Len(students[u].Semesters) >= 1
          /\ \A i \in 1..Len(students[u].Semesters) :
                LET courses == students[u].Semesters[i].Courses
                IN  /\ Len(courses) >= 1
                    /\ \A k \in 1..Len(courses) :
                          /\ courses[k].Course_Code # ""
                          /\ courses[k].Course_Name # ""

(***************************************************************************)
(* main                                                                    *)
(***************************************************************************)
InTry == {"first", "plan", "loop", "classify", "prompted", "result", "dip"}

Init ==
    /\ students = <<>>
    /\ m_in = NoInput /\ m_rep = 0 /\ TableAtRest
    /\ ScrapeAtRest /\ WaitAtRest
    /\ pc = "setup" /\ pi = 0 /\ track = "none" /\ roll = 0
    /\ consec_oops = 0 /\ consec_oops_dip = 0 /\ at_entry = FALSE
    /\ attempt = 0 /\ retries = 0 /\ prompts = 0 /\ res = NoRes
    /\ hist = <<>> /\ log = <<>> /\ errs = 0 /\ stopped = {}
    /\ entered_try = FALSE /\ exit_kind = "none" /\ shutdown = <<>>

\* The locals of the try block and the histories of it, once it is left.
LocalsGone ==
    /\ pi' = 0 /\ track' = "none" /\ roll' = 0
    /\ consec_oops' = 0 /\ consec_oops_dip' = 0 /\ at_entry' = FALSE
    /\ attempt' = 0 /\ retries' = 0 /\ prompts' = 0 /\ res' = NoRes
    /\ hist' = <<>> /\ log' = <<>> /\ errs' = 0 /\ stopped' = {}

\* Control leaves the try block for the finally block (line 610).
LeaveTry(kind) ==
    /\ pc' = "save" /\ exit_kind' = kind
    /\ LocalsGone
    /\ UNCHANGED <<entered_try, shutdown, mvars>>

\* Lines 482-497: the prompt for the file name and the browser launch, which
\* are outside the try block.
Setup ==
    /\ pc = "setup"
    /\ pc' = "first" /\ entered_try' = TRUE
    /\ UNCHANGED <<students, mvars, pi, track, roll, consec_oops, consec_oops_dip,
                   at_entry, attempt, retries, prompts, res, hist, log, errs, stopped,
                   exit_kind, shutdown>>

\* An exception or Ctrl-C in lines 482-497 ends the program there.
SetupFails ==
    /\ pc = "setup"
    /\ pc' = "exited" /\ exit_kind' = "setup"
    /\ UNCHANGED <<students, mvars, pi, track, roll, consec_oops, consec_oops_dip,
                   at_entry, attempt, retries, prompts, res, hist, log, errs, stopped,
                   entered_try, shutdown>>

\* Lines 516-532: the first, manually submitted identifier.
FirstManual(ind, gb, sc) ==
    /\ pc = "first"
    /\ IF ind \in Present
       THEN /\ gb = "true" /\ Room(first_usn, sc)
            /\ IF sc.raise
               THEN /\ LeaveTry("error") /\ UNCHANGED students
               ELSE /\ students' = IF FoundAny(sc.ext.semesters)
                                   THEN MergeFound(students, first_usn, sc.ext.name,
                                                   sc.ext.cgpa, sc.ext.semesters)
                                   ELSE students
                    /\ at_entry' = sc.back
                    /\ pc' = "plan" /\ log' = Append(log, first_usn)
                    /\ UNCHANGED <<mvars, pi, track, roll, consec_oops, consec_oops_dip,
                                   attempt, retries, prompts, res, hist, errs, stopped,
                                   entered_try, exit_kind, shutdown>>
       ELSE /\ sc.raise
            /\ IF gb = "raise"
               THEN /\ LeaveTry("error") /\ UNCHANGED students
               ELSE /\ at_entry' = (gb = "true")
                    /\ pc' = "plan" /\ log' = Append(log, first_usn)
                    /\ UNCHANGED <<students, mvars, pi, track, roll, consec_oops,
                                   consec_oops_dip, attempt, retries, prompts, res, hist,
                                   errs, stopped, entered_try, exit_kind, shutdown>>

\* Lines 535-538: the next (year, branch) of the plan, normal track.
NextPlanEntry ==
    /\ pc = "plan" /\ pi < Len(plan)
    /\ pi' = pi + 1 /\ track' = "normal"
    /\ consec_oops' = 0 /\ roll' = ROLL_START
    /\ hist' = <<>> /\ pc' = "loop"
    /\ UNCHANGED <<students, mvars, consec_oops_dip, at_entry, attempt, retries, prompts,
                   res, log, errs, stopped, entered_try, exit_kind, shutdown>>

\* Line 608: the plan is exhausted.
PlanDone ==
    /\ pc = "plan" /\ pi = Len(plan)
    /\ LeaveTry("normal") /\ UNCHANGED students

\* Lines 569-578: the diploma track of the same branch.
BeginDiploma ==
    /\ pc = "dip"
    /\ track' = "diploma"
    /\ consec_oops_dip' = 0 /\ roll' = DIP_START
    /\ hist' = <<>> /\ pc' = "loop"
    /\ UNCHANGED <<students, mvars, pi, consec_oops, at_entry, attempt, retries, prompts,
                   res, log, errs, stopped, entered_try, exit_kind, shutdown>>

\* submit_and_collect_usn returns: its locals and their histories are gone.
Returned == attempt' = 0 /\ retries' = 0 /\ prompts' = 0

\* Faulty variant for C11: the abandoned identifier is submitted again.
CaughtRollSame(r) == r

\* Line 551 (590): roll += 1 in the except branch, before 'continue'.
CaughtRoll(r) == r + 1

\* Faulty variant for C18: an abandoned identifier counts as not found.
CaughtCounterCounts(c) == c + 1

\* Lines 545-552 (584-591) hold no assignment to consec_oops
\* (consec_oops_dip): the counter after the except branch.
CaughtCounter(c) == c

\* Lines 545-552 (584-591): the exception of the identifier in flight is
\* caught, go_back is tried with its own exception swallowed, roll += 1.
\* mark is the history entry: "R" when the exception is line 366's, "X"
\* otherwise.
Caught(gb, mark) ==
    /\ errs < MaxErrs
    /\ errs' = errs + 1
    /\ at_entry' = (gb = "true")
    /\ roll' = CaughtRoll(roll) /\ hist' = Append(hist, mark)
    /\ pc' = "loop"
    /\ attempt' = 0 /\ retries' = 0 /\ prompts' = 0 /\ res' = NoRes
    /\ IF track = "normal"
       THEN consec_oops' = CaughtCounter(consec_oops) /\ UNCHANGED consec_oops_dip
       ELSE consec_oops_dip' = CaughtCounter(consec_oops_dip) /\ UNCHANGED consec_oops
    /\ UNCHANGED <<students, mvars, pi, track, stopped, entered_try, exit_kind, shutdown>>

\* Lines 361-366: what "Ensure on USN page" comes to.  at: the first wait
\* finds the USN input; gb: the answer of line 365's go_back when it does
\* not.  When go_back returned False and the input stays away, line 366's
\* wait raises TimeoutException, which nothing in the function catches.
EnsureOnUsnPage(at, gb) ==
    IF at \/ gb = "true" THEN "ok" ELSE "raise"

\* Lines 541-544 and 361-388: the identifier is formed and submitted.  e is
\* what lines 361-388 come to: "ok", "nofield" (find_element fails, line 372)
\* or "raise"; gb is the answer of line 365's go_back when the USN input is
\* not there.
SubmitBegin(e, gb) ==
    /\ pc = "loop" /\ roll < Floor + MaxAttempts
    /\ log' = Append(log, CurUsn)
    /\ (at_entry => gb = "true")
    /\ (EnsureOnUsnPage(at_entry, gb) = "raise" => e = "raise")
    /\ CASE e = "raise" ->
               LET mark == IF gb = "false" THEN "R" ELSE "X"
               IN  Caught("false", mark) \/ Caught("true", mark)
         [] e = "nofield" ->
               /\ pc' = "result" /\ res' = NotFoundRes("nofield")
               /\ at_entry' = FALSE
               /\ Returned
               /\ UNCHANGED <<students, mvars, pi, track, roll, consec_oops,
                              consec_oops_dip, hist, errs, stopped, entered_try,
                              exit_kind, shutdown>>
         [] e = "ok" ->
               /\ pc' = "classify" /\ attempt' = 0 /\ retries' = 0 /\ prompts' = 0
               /\ at_entry' = FALSE
               /\ UNCHANGED <<students, mvars, pi, track, roll, consec_oops,
                              consec_oops_dip, res, hist, errs, stopped, entered_try,
                              exit_kind, shutdown>>

\* Line 398 (427): the page shows results and is scraped.
Scraped(ind, sc) ==
    /\ Room(CurUsn, sc)
    /\ IF sc.raise
       THEN Caught("false", "X") \/ Caught("true", "X")
       ELSE /\ pc' = "result" /\ res' = ScrapeRes(sc, ind)
            /\ at_entry' = sc.back
            /\ Returned
            /\ UNCHANGED <<students, mvars, pi, track, roll, consec_oops, consec_oops_dip,
                           hist, errs, stopped, entered_try, exit_kind, shutdown>>

\* Faulty variant for C3: one automatic re-submit fewer.
RetryLeftOneLess(a) == a + 1 < RETRY_ON_TIMEOUT

\* Line 401: whether a timeout is answered by another automatic re-submit.
RetryLeft(a) == a < RETRY_ON_TIMEOUT

\* Lines 391-422: one pass of the retry loop.
Classify(ind, sc) ==
    /\ pc = "classify"
    /\ attempt \in 0..RETRY_ON_TIMEOUT     \* for attempt in range(RETRY_ON_TIMEOUT + 1)
    /\ UNCHANGED log
    /\ (ind \notin Present => sc.raise)
    /\ CASE ind = "oops" ->
               /\ pc' = "result" /\ res' = NotFoundRes("oops")
               /\ Returned
               /\ UNCHANGED <<students, mvars, pi, track, roll, consec_oops,
                              consec_oops_dip, at_entry, hist, errs, stopped, entered_try,
                              exit_kind, shutdown>>
         [] ind \in Present -> Scraped(ind, sc)
         [] ind = "timeout" /\ RetryLeft(attempt) ->
               /\ attempt' = attempt + 1 /\ retries' = retries + 1
               /\ UNCHANGED <<students, mvars, pc, pi, track, roll, consec_oops,
                              consec_oops_dip, at_entry, prompts, res, hist, errs, stopped,
                              entered_try, exit_kind, shutdown>>
         [] ind = "timeout" /\ ~RetryLeft(attempt) ->
               /\ prompts' = prompts + 1 /\ pc' = "prompted"
               /\ UNCHANGED <<students, mvars, pi, track, roll, consec_oops,
                              consec_oops_dip, at_entry, attempt, retries, res, hist, errs,
                              stopped, entered_try, exit_kind, shutdown>>

\* Faulty variant for C4: a timeout after the prompt is taken for a result page.
PromptResOptimistic(ind2) ==
    IF ind2 = "timeout"
    THEN [found |-> TRUE, name |-> NameNotFound, cgpa |-> None, semesters |-> <<>>,
          ind |-> ind2]
    ELSE NotFoundRes(ind2)

\* Lines 428-433: what is returned when the page after the prompt shows no
\* results: (False, None, None, []) for oops and for a timeout alike.
PromptRes(ind2) == NotFoundRes(ind2)

\* Lines 425-433: the classification after the operator answered the prompt.
AfterPrompt(ind2, sc) ==
    /\ pc = "prompted"
    /\ UNCHANGED log
    /\ IF ind2 \in Present
       THEN Scraped(ind2, sc)
       ELSE /\ sc.raise
            /\ pc' = "result" /\ res' = PromptRes(ind2)
            /\ Returned
            /\ UNCHANGED <<students, mvars, pi, track, roll, consec_oops, consec_oops_dip,
                           at_entry, hist, errs, stopped, entered_try, exit_kind,
                           shutdown>>

\* Faulty variant for C1: '>' in place of '>='.
StopReachedLate(c) == c > MAX_CONSEC_OOPS

\* Lines 557 (596): the group ends once the counter has reached the threshold.
StopReached(c) == c >= MAX_CONSEC_OOPS

\* Faulty variant for C23: a not-found identifier leaves the counter as it is.
CounterAfterNoCount(c, found) == IF found THEN 0 ELSE c

\* Faulty variant for C2: a found identifier leaves the counter as it is.
CounterAfterNoReset(c, found) == IF found THEN c ELSE c + 1

\* Lines 554-563 (593-602): the group's counter after an identifier.
CounterAfter(c, found) == IF found THEN 0 ELSE c + 1

\* Faulty variant for C20: the tuple is merged whether found or not.
MergesAlways(found) == TRUE

\* Lines 554 and 562-565 (593, 601-604): ensure_student and merge_semesters
\* are reached only in the else branch of 'if not found'.
Merges(found) == found

\* Lines 554-567 (593-606): the returned tuple is handled.  gb is the answer
\* of go_back_to_usn_entry_keep_session on lines 559/561 (598/600), which is
\* called outside any try.
HandleResult(gb) ==
    /\ pc = "result"
    /\ LET c == CounterAfter(Counter, res.found)
       IN  IF gb = "raise"
           THEN /\ ~res.found
                /\ LeaveTry("error") /\ UNCHANGED students
           ELSE /\ IF track = "normal"
                   THEN consec_oops' = c /\ UNCHANGED consec_oops_dip
                   ELSE consec_oops_dip' = c /\ UNCHANGED consec_oops
                /\ hist' = Append(hist, IF res.found THEN "F" ELSE "N")
                /\ IF Merges(res.found)
                   THEN /\ gb = "true"
                        /\ students' = MergeFound(students, CurUsn, res.name, res.cgpa,
                                                  res.semesters)
                        /\ UNCHANGED at_entry
                   ELSE /\ at_entry' = (gb = "true")
                        /\ UNCHANGED students
                /\ IF ~res.found /\ StopReached(c)
                   THEN /\ pc' = IF track = "normal" THEN "dip" ELSE "plan"
                        /\ stopped' = stopped \cup
                              {[year |-> TrackYear, branch |-> plan[pi].branch,
                                roll |-> roll]}
                        /\ UNCHANGED roll
                   ELSE /\ pc' = "loop" /\ roll' = roll + 1
                        /\ UNCHANGED stopped
                /\ res' = NoRes
                /\ UNCHANGED <<mvars, pi, track, attempt, retries, prompts, log, errs,
                               entered_try, exit_kind, shutdown>>

\* Ctrl-C inside the try block: KeyboardInterrupt is no Exception, so no
\* 'except Exception' catches it and the finally block runs.
Interrupt ==
    /\ pc \in InTry
    /\ LeaveTry("interrupt") /\ UNCHANGED students

\* Ctrl-C once ensure_student has returned and before merge_semesters has
\* merged anything (between lines 525 and 526, 564 and 565, 603 and 604):
\* the record stays as ensure_student made it and the finally block runs.
InterruptBeforeMerge ==
    /\ \/ /\ pc = "first"
          /\ \E sc \in Scrapes :
                /\ ~sc.raise /\ FoundAny(sc.ext.semesters) /\ Room(first_usn, sc)
                /\ students' = ensure_student(students, first_usn, sc.ext.name,
                                              sc.ext.cgpa)
       \/ /\ pc = "result" /\ res.found
          /\ students' = ensure_student(students, CurUsn, res.name, res.cgpa)
    /\ LeaveTry("interrupt")

(***************************************************************************)
(* The finally block (lines 610-628)                                       *)
(***************************************************************************)
SaveEvents == {"saved", "save_failed_reported", "save_interrupted"}
QuitEvents == {"quit", "quit_failed", "quit_interrupted"}

\* Faulty variant for C10: a failing save is not caught and ends the finally block.
AfterSaveRaises(ok) == IF ok THEN "quit" ELSE "exited"

\* Where control goes after the save attempt of lines 612-623: its
\* 'except Exception' reports a failure and falls through to driver.quit().
AfterSave(ok) == "quit"

\* Lines 612-623: the save succeeds, or fails with an exception.
Save(ok) ==
    /\ pc = "save"
    /\ shutdown' = Append(shutdown, IF ok THEN "saved" ELSE "save_failed_reported")
    /\ pc' = AfterSave(ok)
    /\ UNCHANGED <<students, mvars, pi, track, roll, consec_oops, consec_oops_dip,
                   at_entry, attempt, retries, prompts, res, hist, log, errs, stopped,
                   entered_try, exit_kind>>

\* Ctrl-C while saving: no handler of the finally block catches it.
SaveInterrupted ==
    /\ pc = "save"
    /\ shutdown' = Append(shutdown, "save_interrupted")
    /\ pc' = "exited"
    /\ UNCHANGED <<students, mvars, pi, track, roll, consec_oops, consec_oops_dip,
                   at_entry, attempt, retries, prompts, res, hist, log, errs, stopped,
                   entered_try, exit_kind>>

\* Lines 625-628: driver.quit() succeeds, fails (swallowed) or is interrupted.
Quit(ev) ==
    /\ pc = "quit"
    /\ shutdown' = Append(shutdown, ev)
    /\ pc' = "exited"
    /\ UNCHANGED <<students, mvars, pi, track, roll, consec_oops, consec_oops_dip,
                   at_entry, attempt, retries, prompts, res, hist, log, errs, stopped,
                   entered_try, exit_kind>>

Next ==
    \/ Setup
    \/ SetupFails
    \/ \E ind \in Indicators, gb \in GoBacks, sc \in Scrapes : FirstManual(ind, gb, sc)
    \/ NextPlanEntry
    \/ PlanDone
    \/ BeginDiploma
    \/ \E e \in {"ok", "nofield", "raise"}, gb \in GoBacks : SubmitBegin(e, gb)
    \/ \E ind \in Indicators, sc \in Scrapes : Classify(ind, sc)
    \/ \E ind2 \in Indicators, sc \in Scrapes : AfterPrompt(ind2, sc)
    \/ \E gb \in GoBacks : HandleResult(gb)
    \/ Interrupt
    \/ InterruptBeforeMerge
    \/ \E ok \in BOOLEAN : Save(ok)
    \/ SaveInterrupted
    \/ \E ev \in QuitEvents : Quit(ev)

Spec == Init /\ [][Next]_vars

\* The steps the program takes by itself.  main is one sequential thread:
\* once a statement can run it runs, and each wait on the page or on the
\* operator (lines 483, 518, 405-411) ends, by an indicator or by its
\* timeout.  Ctrl-C is the operator's choice and is not among them.
Proceed ==
    \/ Setup
    \/ SetupFails
    \/ \E ind \in Indicators, gb \in GoBacks, sc \in Scrapes : FirstManual(ind, gb, sc)
    \/ NextPlanEntry
    \/ PlanDone
    \/ BeginDiploma
    \/ \E e \in {"ok", "nofield", "raise"}, gb \in GoBacks : SubmitBegin(e, gb)
    \/ \E ind \in Indicators, sc \in Scrapes : Classify(ind, sc)
    \/ \E ind2 \in Indicators, sc \in Scrapes : AfterPrompt(ind2, sc)
    \/ \E gb \in GoBacks : HandleResult(gb)
    \/ \E ok \in BOOLEAN : Save(ok)
    \/ \E ev \in QuitEvents : Quit(ev)

\* The run of main under that scheduling.
SpecLive == Init /\ [][Next]_vars /\ WF_vars(Proceed)

(***************************************************************************)
(* Claims about the enumeration loop and the submission state machine      *)
(***************************************************************************)
InGroup == {"loop", "classify", "prompted", "result"}

\* The group in progress has just ended (its history is still there).
GroupStopped == pc = "dip" \/ (pc = "plan" /\ track = "diploma")

\* The outcomes of the identifiers that had one: an identifier abandoned by
\* an exception is counted as neither found nor not found.
Outcomes(h) == SelectSeq(h, LAMBDA x : x \in {"F", "N"})

\* The length of the trailing run of not-found outcomes.
TrailingNeg(o) ==
    CHOOSE k \in 0..Len(o) :
        /\ \A i \in (Len(o) - k + 1)..Len(o) : o[i] = "N"
        /\ (k < Len(o) => o[Len(o) - k] # "N")

Prefix(o, k) == SubSeq(o, 1, k)
Range(f) == {f[i] : i \in DOMAIN f}

\* C1: a group goes on exactly while the trailing run of not-found outcomes
\* is below MAX_CONSEC_OOPS: while it runs no prefix of its outcomes ends in
\* such a run; when it has stopped its outcomes end in a run of exactly
\* MAX_CONSEC_OOPS, reached by the last identifier processed and by no
\* earlier one; the identifiers it processed are floor, floor+1, ... one per
\* history entry, and no later sequence number of a stopped group is ever
\* processed.
C1_StoppingRule ==
    /\ pc \in InGroup =>
          /\ \A k \in 0..Len(Outcomes(hist)) :
                TrailingNeg(Prefix(Outcomes(hist), k)) < MAX_CONSEC_OOPS
          /\ roll = Floor + Len(hist)
    /\ GroupStopped =>
          /\ TrailingNeg(Outcomes(hist)) = MAX_CONSEC_OOPS
          /\ hist[Len(hist)] = "N"
          /\ \A k \in 0..(Len(Outcomes(hist)) - 1) :
                TrailingNeg(Prefix(Outcomes(hist), k)) < MAX_CONSEC_OOPS
          /\ roll = Floor + Len(hist) - 1
          /\ log[Len(log)] = CurUsn
    /\ \A g \in stopped :
          \A r \in (g.roll + 1)..(g.roll + MaxAttempts) :
              Usn(g.year, g.branch, r) \notin Range(log)

\* C1 witness: with threshold 5 and floor 1 the outcomes found, then five
\* times not found, ended the group after sequence 6; sequence 7 was not
\* submitted.
C1_Witness ==
    /\ GroupStopped /\ track = "normal"
    /\ hist = <<"F", "N", "N", "N", "N", "N">>
    /\ roll = 6
    /\ Usn(plan[pi].year, plan[pi].branch, 7) \notin Range(log)

\* The step of main that handles the tuple submit_and_collect_usn returned.
Handled == pc = "result" /\ pc' \in {"loop", "dip", "plan"}
CounterNext == IF track = "normal" THEN consec_oops' ELSE consec_oops_dip'

\* C2 (as claimed): after an identifier the classifier reported as cards or
\* table was processed, the group's counter is zero.
C2_PresentResetsCounter ==
    [][(Handled /\ res.ind \in Present) => CounterNext = 0]_vars

\* C2 (amended): after an identifier the classifier reported as cards or
\* table was processed, the group's counter is zero if the extractor
\* returned at least one semester fragment, and one more than before if it
\* returned none; if the extractor raised instead, the identifier is
\* abandoned and the counter is as before.
C2_PresentWithFragmentsResetsCounter ==
    [][((Handled /\ res.ind \in Present) =>
          /\ res.found = (Len(res.semesters) > 0)
          /\ Len(res.semesters) > 0 => CounterNext = 0
          /\ Len(res.semesters) = 0 => CounterNext = Counter + 1)
       /\ ((pc \in {"classify", "prompted"} /\ pc' = "loop")
             => CounterNext = Counter /\ hist' = Append(hist, "X"))]_vars

\* C2 witness: a found identifier after a not-found one left the counter at 0.
C2_Witness ==
    /\ pc = "loop" /\ track = "normal"
    /\ hist = <<"N", "F">> /\ consec_oops = 0
    /\ CurUsn \notin DOMAIN students
    /\ Usn(plan[pi].year, plan[pi].branch, 2) \in DOMAIN students

\* C3: the retry-exhaustion prompt is issued at most once per identifier and
\* only after exactly RETRY_ON_TIMEOUT automatic re-submits; no re-submit
\* follows it; before it, the re-submits done are as many as the timeouts
\* seen, and at most RETRY_ON_TIMEOUT.
C3_RetriesThenPrompt ==
    /\ retries <= RETRY_ON_TIMEOUT
    /\ prompts <= 1
    /\ pc = "classify" => prompts = 0 /\ retries = attempt
    /\ pc = "prompted" <=> prompts = 1
    /\ prompts = 1 => retries = RETRY_ON_TIMEOUT

\* C3 witness: every classification timed out and the operator is prompted.
C3_Witness ==
    pc = "prompted" /\ prompts = 1 /\ retries = RETRY_ON_TIMEOUT

\* C4: a timeout after the prompt is returned as not found, with no name,
\* cgpa or semesters; handling it adds one to the group's counter, records a
\* not-found outcome and leaves the aggregate as it was.
C4_DowngradedTimeout ==
    [][(pc = "prompted" /\ pc' = "result" /\ res'.ind = "timeout"
            => res' = NotFoundRes("timeout"))
       /\ (Handled /\ res.ind = "timeout"
            => /\ ~res.found
               /\ CounterNext = Counter + 1
               /\ hist' = Append(hist, "N")
               /\ students' = students)]_vars

\* C4 witness: submit_and_collect_usn returned after a timeout that
\* followed the prompt, with a record in the aggregate.
C4_Witness ==
    /\ pc = "result" /\ res.ind = "timeout"
    /\ Counter = 1 /\ DOMAIN students # {}

\* The step in which the except branch of a group loop abandons the
\* identifier in flight.
Abandoned ==
    /\ pc \in InGroup
    /\ Len(hist') = Len(hist) + 1
    /\ hist'[Len(hist')] \in {"X", "R"}

\* C11: when an exception out of submit_and_collect_usn is caught by the
\* group loop, the loop goes on in the same group and track, the group is
\* not ended, both counters and the aggregate are as before, the abandoned
\* identifier is the one submitted last, and the identifier submitted next
\* has the next roll of the same group.
C11_ExceptionAbandonsIdentifier ==
    [][(Abandoned =>
          /\ pc' = "loop" /\ pi' = pi /\ track' = track
          /\ stopped' = stopped
          /\ consec_oops' = consec_oops /\ consec_oops_dip' = consec_oops_dip
          /\ students' = students
          /\ log'[Len(log')] = CurUsn
          /\ roll' = roll + 1)
       /\ ((pc = "loop" /\ pc' \in InGroup) => log' = Append(log, CurUsn))]_vars

\* C11 witness: the second identifier of a group was abandoned after a
\* not-found one; the counter still reads 1 and roll 3 is next.
C11_Witness ==
    /\ pc = "loop" /\ track = "normal"
    /\ hist = <<"N", "X">>
    /\ consec_oops = 1 /\ roll = ROLL_START + 2

\* The first entries of the plan, written out: year and branch of the
\* normal track, year of the diploma track.
PlanHead ==
    <<[year |-> "21", branch |-> "AD", dip |-> "22"],
      [year |-> "22", branch |-> "AD", dip |-> "23"],
      [year |-> "23", branch |-> "AD", dip |-> "24"],
      [year |-> "24", branch |-> "AD", dip |-> "25"],
      [year |-> "21", branch |-> "AI", dip |-> "22"]>>

\* The identifiers the group in progress has submitted so far.
Submitted == Len(hist) + (IF pc \in {"classify", "prompted", "result"} THEN 1 ELSE 0)

C17_RecordIffPresent ==
    [][(Handled /\ res.ind \in Present) => CurUsn \in DOMAIN students']_vars

\* C17 (amended): a record exists for an identifier if and only if some
\* processing of it returned found, that is a cards or table classification
\* followed by an extraction of at least one semester fragment: the record
\* is there after the first such outcome, no other step adds a record (the
\* step that adds it is the handling of the found tuple, completed or cut
\* short by Ctrl-C), no step removes one, and a record is stored under its
\* own USN (one per identifier).
C17_RecordIffFound ==
    [][/\ DOMAIN students \subseteq DOMAIN students'
       /\ \A u \in DOMAIN students' : students'[u].USN = u
       /\ Handled =>
             /\ res.found = (res.ind \in Present /\ Len(res.semesters) > 0)
             /\ res.found => DOMAIN students' = DOMAIN students \cup {CurUsn}
             /\ ~res.found => DOMAIN students' = DOMAIN students
       /\ DOMAIN students' # DOMAIN students =>
             \/ /\ pc = "result" /\ res.found
                /\ Handled \/ (pc' = "save" /\ exit_kind' = "interrupt")
             \/ /\ pc = "first"
                /\ DOMAIN students' = {first_usn}
                /\ \/ pc' = "plan" /\ students'[first_usn].Semesters # <<>>
                   \/ pc' = "save" /\ exit_kind' = "interrupt"]_vars

\* C17 witness: roll 1 was found and has its record; roll 2 was not found
\* and has none.
C17_Witness ==
    /\ pc = "loop" /\ track = "normal" /\ pi = 1
    /\ hist = <<"F", "N">> /\ roll = 3
    /\ DOMAIN students = {"1MS21AD001"}
    /\ "1MS21AD002" \in Range(log)

C20_NotFoundLeavesAggregate ==
    [][/\ (Handled /\ ~res.found) => students' = students
       /\ Abandoned => students' = students
       /\ (pc \in InGroup /\ students' # students) =>
             /\ pc = "result" /\ res.found
             /\ Handled \/ (pc' = "save" /\ exit_kind' = "interrupt")
       /\ (pc = "first" /\ students' # students) =>
             \/ pc' = "plan" /\ students'[first_usn].Semesters # <<>>
             \/ pc' = "save" /\ exit_kind' = "interrupt"]_vars

\* C20 witness: with the record of the first identifier in the aggregate,
\* one identifier was not found and the next was abandoned; the aggregate
\* holds that one record, with its two semesters, still.
C20_Witness ==
    /\ pc = "loop" /\ track = "normal"
    /\ hist = <<"N", "X">>
    /\ DOMAIN students = {first_usn}
    /\ Len(students[first_usn].Semesters) = 2

QuietFrom == MaxAttempts - MAX_CONSEC_OOPS

\* The group in progress (or just ended) had only not-found outcomes, and no
\* exception, from its identifier number QuietFrom + 1 on.
QuietGroup == \A i \in (QuietFrom + 1)..Len(hist) : hist[i] = "N"

\* The run got into the try block if it left the setup, and nothing cut it
\* short: no Ctrl-C and no exception that main does not catch.
NotCutShort == exit_kind \notin {"setup", "interrupt", "error"}

\* The plan is exhausted after every group of it, primary and secondary,
\* has ended.
AllGroupsProcessed ==
    /\ pi = Len(plan)
    /\ Cardinality(stopped) = 2 * Len(plan)
    /\ \A k \in 1..Len(plan) :
          \E g, d \in stopped :
              /\ g.branch = plan[k].branch /\ g.year = plan[k].year
              /\ d.branch = plan[k].branch /\ d.year = DipYear(plan[k].year)

\* C23: in a run that nothing cuts short and whose waits all end, if in
\* every group the outcomes are not-found from some sequence number on, the
\* run reaches the save step on the normal path; it leaves the plan for the
\* save step only after every group of the plan has ended.  Conversely a
\* group ends only in the step that handles a not-found identifier and
\* brings the counter to MAX_CONSEC_OOPS: after a found identifier or an
\* exception the loop goes on with the next sequence number, whatever that
\* number is.
C23_GroupsTerminateWhenQuiet ==
    /\ ([]QuietGroup /\ []NotCutShort) => <>(pc = "save" /\ exit_kind = "normal")
    /\ [][/\ (pc = "plan" /\ pc' = "save" /\ exit_kind' = "normal") =>
               AllGroupsProcessed
          /\ (pc \in InGroup /\ pc' \in {"dip", "plan"}) =>
               /\ pc = "result" /\ ~res.found
               /\ CounterNext = MAX_CONSEC_OOPS
          /\ ((Handled /\ res.found) \/ Abandoned) =>
               /\ pc' = "loop" /\ roll' = roll + 1
               /\ CounterNext < MAX_CONSEC_OOPS]_vars

\* C23's case: the last group of the plan had an exception, then five
\* identifiers not found, and ended; every group of the plan has ended and
\* the next step leaves for the save step.
C23_Witness ==
    /\ pc = "plan" /\ track = "diploma"
    /\ AllGroupsProcessed
    /\ hist = <<"X", "N", "N", "N", "N", "N">>

(***************************************************************************)
(* Claims about the shutdown path                                          *)
(***************************************************************************)
SaveAttempts == Cardinality({i \in 1..Len(shutdown) : shutdown[i] \in SaveEvents})
QuitAttempts == Cardinality({i \in 1..Len(shutdown) : shutdown[i] \in QuitEvents})

\* C10 (as claimed): on every exit of the program the save was attempted
\* exactly once, before any teardown attempt, and a save that was not
\* interrupted was followed by the teardown attempt.
C10_SaveOnEveryExit ==
    /\ pc = "exited" => SaveAttempts = 1 /\ shutdown[1] \in SaveEvents
    /\ \A i \in 1..Len(shutdown) :
          shutdown[i] \in QuitEvents => i = 2 /\ shutdown[1] \in SaveEvents
    /\ (pc = "exited" /\ shutdown # <<>> /\ shutdown[1] # "save_interrupted")
          => QuitAttempts = 1

\* C10 (amended): once the try block was entered, every exit (the plan
\* exhausted, an unhandled error, Ctrl-C inside the try block) attempts the
\* save exactly once, before the teardown attempt and whatever driver.quit
\* does; a save that fails with an exception is reported and followed by the
\* teardown attempt.  An exit before the try block is entered (lines
\* 482-497) attempts neither save nor teardown, and a save interrupted by
\* Ctrl-C is not followed by the teardown attempt.
C10_SaveOnceAfterTryEntered ==
    /\ SaveAttempts <= 1 /\ QuitAttempts <= 1
    /\ (pc = "exited" /\ entered_try) => SaveAttempts = 1 /\ shutdown[1] \in SaveEvents
    /\ (pc = "exited" /\ ~entered_try) => shutdown = <<>>
    /\ pc = "quit" => SaveAttempts = 1 /\ QuitAttempts = 0
    /\ \A i \in 1..Len(shutdown) :
          shutdown[i] \in QuitEvents =>
              i = 2 /\ shutdown[1] \in {"saved", "save_failed_reported"}
    /\ (pc = "exited" /\ shutdown # <<>> /\ shutdown[1] # "save_interrupted")
          => QuitAttempts = 1
    /\ (pc = "exited" /\ shutdown # <<>> /\ shutdown[1] = "save_interrupted")
          => QuitAttempts = 0

\* C10 witness: the run was interrupted, the save failed and was reported,
\* and driver.quit was attempted and failed.
C10_Witness ==
    /\ pc = "exited" /\ exit_kind = "interrupt"
    /\ shutdown = <<"save_failed_reported", "quit_failed">>

=============================================================================
